---- MODULE Spec2Model ----
(***************************************************************************)
(* A model of examples/api_demo.py: the request functions (one HTTP call   *)
(* each) and the driver main() that calls them in a fixed order.           *)
(*                                                                         *)
(* Python/JSON values are tagged records.  The HTTP transport is the       *)
(* environment: every request either raises a transport error or gets a    *)
(* response (status code, body text) chosen nondeterministically.          *)
(***************************************************************************)
EXTENDS Integers, Sequences, FiniteSets, TLC

VARIABLES pc, health, flows, protocol_flow, new_flow, updated, ai_status,
          ai_response, sent, banners, exc, call

vars == <<pc, health, flows, protocol_flow, new_flow, updated, ai_status,
          ai_response, sent, banners, exc, call>>

(***************************************************************************)
(* Python values                                                           *)
(***************************************************************************)
None == [k |-> "none"]

Bool(b) == [k |-> "bool", b |-> b]

Num(n) == [k |-> "num", n |-> n]

Str(s) == [k |-> "str", s |-> s]

Obj(o) == [k |-> "obj", o |-> o]

List(a) == [k |-> "list", a |-> a]

\* a local name of main() that has not been assigned yet
Unbound == [k |-> "unbound"]

\* Python truth value testing, as used by `if x:` and `x or y`
Truthy(v) ==
    CASE v.k = "none" -> FALSE
      [] v.k = "bool" -> v.b
      [] v.k = "num"  -> v.n # 0
      [] v.k = "str"  -> v.s # ""
      [] v.k = "obj"  -> DOMAIN v.o # {}
      [] v.k = "list" -> Len(v.a) > 0

\* x or y
Or(x, y) == IF Truthy(x) THEN x ELSE y

\* d.get(key): AttributeError unless d is a dict, None when the key is absent
HasGet(d) == d.k = "obj"

Get(d, key) == IF key \in DOMAIN d.o THEN d.o[key] ELSE None

\* d[key]: raises unless d is a dict holding the key (KeyError / TypeError)
CanIndex(d, key) == d.k = "obj" /\ key \in DOMAIN d.o

Index(d, key) == d.o[key]

\* payload[key] = value
SetItem(d, key, value) ==
    Obj([x \in DOMAIN d.o \cup {key} |-> IF x = key THEN value ELSE d.o[x]])

\* str() of a value put into an f-string path
Format(v) ==
    CASE v.k = "num"  -> ToString(v.n)
      [] v.k = "str"  -> v.s
      [] v.k = "none" -> "None"
      [] v.k = "bool" -> IF v.b THEN "True" ELSE "False"
      [] OTHER        -> "?"

(***************************************************************************)
(* The transport: responses and their bodies                               *)
(***************************************************************************)
HtmlBody == "<html>Internal Server Error</html>"

\* body texts the server may send
Bodies ==
    { HtmlBody, "null", "{}", "{\"id\": 42}", "{\"id\": 7}",
      "{\"status\": \"healthy\"}",
      "{\"configured\": true}", "{\"configured\": false}" }

\* response.json() succeeds
JsonOk(text) == text # HtmlBody /\ text # ""

\* response.json()
ParseJson(text) ==
    CASE text = "null" -> None
      [] text = "[]" -> List(<<>>)
      [] text = "{}" -> Obj(<<>>)
      [] text = "{\"id\": 42}" -> Obj([id |-> Num(42)])
      [] text = "{\"id\": 7}" -> Obj([id |-> Num(7)])
      [] text = "{\"status\": \"healthy\"}" -> Obj([status |-> Str("healthy")])
      [] text = "{\"configured\": true}" -> Obj([configured |-> Bool(TRUE)])
      [] text = "{\"configured\": false}" -> Obj([configured |-> Bool(FALSE)])

Statuses == {200, 201, 204, 500}

\* the transport raised (connection refused, timeout): no response
TransportError == [err |-> TRUE, status |-> 0, text |-> ""]

Response(status, text) == [err |-> FALSE, status |-> status, text |-> text]

Outcomes ==
    {TransportError} \cup {Response(s, t) : s \in Statuses, t \in Bodies}

(***************************************************************************)
(* Request functions.  Each takes its arguments and the outcome of its one *)
(* HTTP call and yields the request it sent, the exception it raised (""   *)
(* when none) and the value it returned.  print_response only prints: it   *)
(* swallows its own JSON errors and changes nothing.                       *)
(***************************************************************************)
BASE_URL == "http://localhost:3001"

JsonHeaders == "application/json"

NoHeaders == ""

Request(method, url, json, headers) ==
    [method |-> method, url |-> url, json |-> json, headers |-> headers]

Raised(req, resp, e) == [req |-> req, exc |-> e, ret |-> None]

Returned(req, resp, v) == [req |-> req, exc |-> "", ret |-> v]

\* return response.json()
ReturnJson(req, resp) ==
    IF resp.err THEN Raised(req, resp, "ConnectionError")
    ELSE IF ~JsonOk(resp.text) THEN Raised(req, resp, "JSONDecodeError")
    ELSE Returned(req, resp, ParseJson(resp.text))

\* return response.json() if response.status_code == code else None
ReturnJsonIf(req, resp, code) ==
    IF resp.err THEN Raised(req, resp, "ConnectionError")
    ELSE IF resp.status = code THEN
        IF ~JsonOk(resp.text) THEN Raised(req, resp, "JSONDecodeError")
        ELSE Returned(req, resp, ParseJson(resp.text))
    ELSE Returned(req, resp, None)

\* return response.text if response.status_code == code else None
ReturnTextIf(req, resp, code) ==
    IF resp.err THEN Raised(req, resp, "ConnectionError")
    ELSE IF resp.status = code THEN Returned(req, resp, Str(resp.text))
    ELSE Returned(req, resp, None)

\* return response.status_code == code
ReturnStatusIs(req, resp, code) ==
    IF resp.err THEN Raised(req, resp, "ConnectionError")
    ELSE Returned(req, resp, Bool(resp.status = code))

\* list_flows gated on status 200 like the lookups
list_flows_gated(resp) ==
    ReturnJsonIf(Request("GET", BASE_URL \o "/api/flows", None, NoHeaders),
                 resp, 200)

check_health(resp) ==
    ReturnJson(Request("GET", BASE_URL \o "/health", None, NoHeaders), resp)

list_flows(resp) ==
    ReturnJson(Request("GET", BASE_URL \o "/api/flows", None, NoHeaders), resp)

get_flow_by_id(flow_id, resp) ==
    ReturnJsonIf(Request("GET", BASE_URL \o "/api/flows/" \o Format(flow_id),
                         None, NoHeaders), resp, 200)

get_flow_by_external_id(external_id, resp) ==
    ReturnJsonIf(Request("GET", BASE_URL \o "/api/flows/external/"
                                  \o Format(external_id), None, NoHeaders),
                 resp, 200)

\* create_flow sending every optional key, null when not supplied
create_flow_payload_nulls(name, external_id, flow_yaml, plan_yaml) ==
    Obj([name |-> name, external_id |-> external_id, flow_yaml |-> flow_yaml,
         plan_yaml |-> plan_yaml])

create_flow_payload(name, external_id, flow_yaml, plan_yaml) ==
    LET p0 == Obj([name |-> name])
        p1 == IF Truthy(external_id)
              THEN SetItem(p0, "external_id", external_id) ELSE p0
        p2 == IF Truthy(flow_yaml)
              THEN SetItem(p1, "flow_yaml", flow_yaml) ELSE p1
        p3 == IF Truthy(plan_yaml)
              THEN SetItem(p2, "plan_yaml", plan_yaml) ELSE p2
    IN  p3

\* create_flow gated on status 200 instead of 201
create_flow_gated_on_200(name, external_id, flow_yaml, plan_yaml, resp) ==
    ReturnJsonIf(Request("POST", BASE_URL \o "/api/flows",
                         create_flow_payload(name, external_id, flow_yaml,
                                             plan_yaml),
                         JsonHeaders), resp, 200)

create_flow(name, external_id, flow_yaml, plan_yaml, resp) ==
    ReturnJsonIf(Request("POST", BASE_URL \o "/api/flows",
                         create_flow_payload(name, external_id, flow_yaml,
                                             plan_yaml),
                         JsonHeaders), resp, 201)

update_flow(flow_id, updates, resp) ==
    ReturnJsonIf(Request("PUT", BASE_URL \o "/api/flows/" \o Format(flow_id),
                         updates, JsonHeaders), resp, 200)

delete_flow(flow_id, resp) ==
    ReturnStatusIs(Request("DELETE",
                           BASE_URL \o "/api/flows/" \o Format(flow_id),
                           None, NoHeaders), resp, 204)

get_flow_yaml(flow_id, resp) ==
    ReturnTextIf(Request("GET", BASE_URL \o "/api/flows/" \o Format(flow_id)
                                 \o "/flow.yaml", None, NoHeaders), resp, 200)

get_planspace_yaml(flow_id, resp) ==
    ReturnTextIf(Request("GET", BASE_URL \o "/api/flows/" \o Format(flow_id)
                                 \o "/planspace.yaml", None, NoHeaders),
                 resp, 200)

get_flow_yaml_by_external_id(external_id, resp) ==
    ReturnTextIf(Request("GET", BASE_URL \o "/api/flows/external/"
                                 \o Format(external_id) \o "/flow.yaml",
                         None, NoHeaders), resp, 200)

get_planspace_yaml_by_external_id(external_id, resp) ==
    ReturnTextIf(Request("GET", BASE_URL \o "/api/flows/external/"
                                 \o Format(external_id) \o "/planspace.yaml",
                         None, NoHeaders), resp, 200)

check_ai_status(resp) ==
    ReturnJson(Request("GET", BASE_URL \o "/api/ai/status", None, NoHeaders),
               resp)

\* ai_chat sending history as given, null when not supplied
ai_chat_payload_null_history(workspace, message, history, current_flow_yaml) ==
    LET p0 == Obj([workspace |-> workspace, message |-> message,
                   history |-> history])
    IN  IF Truthy(current_flow_yaml)
        THEN SetItem(p0, "currentFlowYaml", current_flow_yaml) ELSE p0

ai_chat_payload(workspace, message, history, current_flow_yaml) ==
    LET p0 == Obj([workspace |-> workspace, message |-> message,
                   history |-> Or(history, List(<<>>))])
    IN  IF Truthy(current_flow_yaml)
        THEN SetItem(p0, "currentFlowYaml", current_flow_yaml) ELSE p0

ai_chat(workspace, message, history, current_flow_yaml, resp) ==
    ReturnJsonIf(Request("POST", BASE_URL \o "/api/ai/chat",
                         ai_chat_payload(workspace, message, history,
                                         current_flow_yaml),
                         JsonHeaders), resp, 200)

(***************************************************************************)
(* The driver main().  pc is the step main() is about to run; health,      *)
(* flows, protocol_flow, new_flow, updated, ai_status and ai_response are  *)
(* its local names; sent is the sequence of requests issued so far;        *)
(* banners are the progress lines printed; call is the most recent call of *)
(* a request function (its request, the status received, 0 when the        *)
(* transport raised, the exception raised and the value returned).  An     *)
(* exception is caught nowhere: it ends the run (pc = "raised").           *)
(***************************************************************************)
DemoName == "Demo Flow - License Plate Check"

DemoExternalId == "demo-lp-check"

sample_flow_yaml == "diagram: Protocol: ..."

UpdatedName == "Demo Flow - License Plate Check (Updated)"

ChatMessage == "What blocks are available in the protocols workspace?"

NoCall ==
    [fn |-> "", args |-> <<>>, req |-> None, err |-> FALSE, status |-> 0,
     text |-> "", exc |-> "", ret |-> None]

\* the record of one call: its arguments, the transport's outcome, the
\* request sent, the exception raised and the value returned
Called(fn, args, resp, r) ==
    [fn |-> fn, args |-> args, req |-> r.req, err |-> resp.err,
     status |-> resp.status, text |-> resp.text, exc |-> r.exc, ret |-> r.ret]

Init ==
    /\ pc = "step1"
    /\ health = Unbound
    /\ flows = Unbound
    /\ protocol_flow = Unbound
    /\ new_flow = Unbound
    /\ updated = Unbound
    /\ ai_status = Unbound
    /\ ai_response = Unbound
    /\ sent = <<>>
    /\ banners = <<>>
    /\ exc = ""
    /\ call = NoCall

\* the exception raised by d[key] when it cannot be evaluated
IndexError(d) == IF d.k = "obj" THEN "KeyError" ELSE "TypeError"

\* the closing summary
Summary(b) == Append(b, "DEMO COMPLETE")

\* a guard that only tests for None
Present_NotNone(v) == v # None

\* `if protocol_flow:` and `if new_flow:`: the guard of a dependent step
Present(v) == Truthy(v)

\* a guard that tests that the key is there, not its value
Configured_KeyPresent(s) == "configured" \in DOMAIN s.o

\* `if ai_status.get("configured"):`
Configured(s) == Truthy(Get(s, "configured"))

\* a driver that deletes only what it managed to update
AfterChat_RequiresUpdate ==
    IF Present(new_flow) /\ updated # None THEN "step9" ELSE "done"

\* where main() goes once step 8 is over: step 9 or the summary
AfterChat == IF Present(new_flow) THEN "step9" ELSE "done"

AfterChatBanners(b) == IF Present(new_flow) THEN b ELSE Summary(b)

Step1 ==
    /\ pc = "step1"
    /\ \E resp \in Outcomes :
         LET r == check_health(resp)
             b == Append(banners, "STEP 1")
         IN  /\ sent' = Append(sent, r.req)
             /\ call' = Called("check_health", <<>>, resp, r)
             /\ IF r.exc # ""
                THEN /\ pc' = "raised" /\ exc' = r.exc
                     /\ banners' = b /\ UNCHANGED health
                ELSE IF ~HasGet(r.ret)
                THEN /\ pc' = "raised" /\ exc' = "AttributeError"
                     /\ banners' = b /\ health' = r.ret
                ELSE /\ pc' = "step2" /\ exc' = ""
                     /\ health' = r.ret
                     /\ banners' = IF Get(r.ret, "status") # Str("healthy")
                                   THEN Append(b, "WARNING") ELSE b
    /\ UNCHANGED <<flows, protocol_flow, new_flow, updated, ai_status,
                   ai_response>>

\* step 2 wrapped in a handler that swallows the exception
Step2_Swallow ==
    /\ pc = "step2"
    /\ \E resp \in Outcomes :
         LET r == list_flows(resp)
         IN  /\ sent' = Append(sent, r.req)
             /\ call' = Called("list_flows", <<>>, resp, r)
             /\ banners' = Append(banners, "STEP 2")
             /\ exc' = ""
             /\ pc' = "step3"
             /\ flows' = r.ret
    /\ UNCHANGED <<health, protocol_flow, new_flow, updated, ai_status,
                   ai_response>>

Step2 ==
    /\ pc = "step2"
    /\ \E resp \in Outcomes :
         LET r == list_flows(resp)
         IN  /\ sent' = Append(sent, r.req)
             /\ call' = Called("list_flows", <<>>, resp, r)
             /\ banners' = Append(banners, "STEP 2")
             /\ exc' = r.exc
             /\ IF r.exc # ""
                THEN pc' = "raised" /\ UNCHANGED flows
                ELSE pc' = "step3" /\ flows' = r.ret
    /\ UNCHANGED <<health, protocol_flow, new_flow, updated, ai_status,
                   ai_response>>

Step3 ==
    /\ pc = "step3"
    /\ \E resp \in Outcomes :
         LET r == get_flow_by_external_id(Str("111"), resp)
         IN  /\ sent' = Append(sent, r.req)
             /\ call' = Called("get_flow_by_external_id", <<Str("111")>>, resp, r)
             /\ banners' = Append(banners, "STEP 3")
             /\ exc' = r.exc
             /\ IF r.exc # ""
                THEN pc' = "raised" /\ UNCHANGED protocol_flow
                ELSE /\ protocol_flow' = r.ret
                     /\ pc' = IF Present(r.ret) THEN "step4" ELSE "step5"
    /\ UNCHANGED <<health, flows, new_flow, updated, ai_status, ai_response>>

Step4 ==
    /\ pc = "step4"
    /\ IF ~CanIndex(protocol_flow, "id")
       THEN /\ pc' = "raised" /\ exc' = IndexError(protocol_flow)
            /\ UNCHANGED <<sent, call>>
       ELSE \E resp \in Outcomes :
              LET r == get_flow_yaml(Index(protocol_flow, "id"), resp)
              IN  /\ sent' = Append(sent, r.req)
                  /\ call' = Called("get_flow_yaml", <<Index(protocol_flow, "id")>>, resp, r)
                  /\ exc' = r.exc
                  /\ pc' = IF r.exc # "" THEN "raised" ELSE "step4b"
    /\ banners' = Append(banners, "STEP 4")
    /\ UNCHANGED <<health, flows, protocol_flow, new_flow, updated, ai_status,
                   ai_response>>

Step4b ==
    /\ pc = "step4b"
    /\ IF ~CanIndex(protocol_flow, "id")
       THEN /\ pc' = "raised" /\ exc' = IndexError(protocol_flow)
            /\ UNCHANGED <<sent, call>>
       ELSE \E resp \in Outcomes :
              LET r == get_planspace_yaml(Index(protocol_flow, "id"), resp)
              IN  /\ sent' = Append(sent, r.req)
                  /\ call' = Called("get_planspace_yaml", <<Index(protocol_flow, "id")>>, resp, r)
                  /\ exc' = r.exc
                  /\ pc' = IF r.exc # "" THEN "raised" ELSE "step5"
    /\ UNCHANGED <<health, flows, protocol_flow, new_flow, updated, ai_status,
                   ai_response, banners>>

Step5 ==
    /\ pc = "step5"
    /\ \E resp \in Outcomes :
         LET r == create_flow(Str(DemoName), Str(DemoExternalId),
                              Str(sample_flow_yaml), None, resp)
         IN  /\ sent' = Append(sent, r.req)
             /\ call' = Called("create_flow", <<Str(DemoName), Str(DemoExternalId),
                              Str(sample_flow_yaml), None>>, resp, r)
             /\ banners' = Append(banners, "STEP 5")
             /\ exc' = r.exc
             /\ IF r.exc # ""
                THEN pc' = "raised" /\ UNCHANGED new_flow
                ELSE /\ new_flow' = r.ret
                     /\ pc' = IF Present(r.ret) THEN "step6" ELSE "step7"
    /\ UNCHANGED <<health, flows, protocol_flow, updated, ai_status,
                   ai_response>>

Step6 ==
    /\ pc = "step6"
    /\ IF ~CanIndex(new_flow, "id")
       THEN /\ pc' = "raised" /\ exc' = IndexError(new_flow)
            /\ UNCHANGED <<sent, call, updated>>
       ELSE \E resp \in Outcomes :
              LET r == update_flow(Index(new_flow, "id"),
                                   Obj([name |-> Str(UpdatedName)]), resp)
              IN  /\ sent' = Append(sent, r.req)
                  /\ call' = Called("update_flow", <<Index(new_flow, "id"),
                              Obj([name |-> Str(UpdatedName)])>>, resp, r)
                  /\ exc' = r.exc
                  /\ IF r.exc # ""
                     THEN pc' = "raised" /\ UNCHANGED updated
                     ELSE pc' = "step7" /\ updated' = r.ret
    /\ banners' = Append(banners, "STEP 6")
    /\ UNCHANGED <<health, flows, protocol_flow, new_flow, ai_status,
                   ai_response>>

Step7 ==
    /\ pc = "step7"
    /\ \E resp \in Outcomes :
         LET r == check_ai_status(resp)
             b == Append(banners, "STEP 7")
         IN  /\ sent' = Append(sent, r.req)
             /\ call' = Called("check_ai_status", <<>>, resp, r)
             /\ IF r.exc # ""
                THEN /\ pc' = "raised" /\ exc' = r.exc
                     /\ banners' = b /\ UNCHANGED ai_status
                ELSE IF ~HasGet(r.ret)
                THEN /\ pc' = "raised" /\ exc' = "AttributeError"
                     /\ banners' = b /\ ai_status' = r.ret
                ELSE IF Configured(r.ret)
                THEN /\ pc' = "step8" /\ exc' = ""
                     /\ banners' = b /\ ai_status' = r.ret
                ELSE /\ pc' = AfterChat /\ exc' = ""
                     /\ ai_status' = r.ret
                     /\ banners' = AfterChatBanners(Append(b, "STEP 8 SKIPPED"))
    /\ UNCHANGED <<health, flows, protocol_flow, new_flow, updated,
                   ai_response>>

Step8 ==
    /\ pc = "step8"
    /\ \E resp \in Outcomes :
         LET r == ai_chat(Str("protocols"), Str(ChatMessage), None, None, resp)
             b == Append(banners, "STEP 8")
         IN  /\ sent' = Append(sent, r.req)
             /\ call' = Called("ai_chat", <<Str("protocols"), Str(ChatMessage),
                              None, None>>, resp, r)
             /\ exc' = r.exc
             /\ IF r.exc # ""
                THEN /\ pc' = "raised" /\ banners' = b
                     /\ UNCHANGED ai_response
                ELSE /\ pc' = AfterChat /\ banners' = AfterChatBanners(b)
                     /\ ai_response' = r.ret
    /\ UNCHANGED <<health, flows, protocol_flow, new_flow, updated, ai_status>>

Step9 ==
    /\ pc = "step9"
    /\ IF ~CanIndex(new_flow, "id")
       THEN /\ pc' = "raised" /\ exc' = IndexError(new_flow)
            /\ banners' = Append(banners, "STEP 9")
            /\ UNCHANGED <<sent, call>>
       ELSE \E resp \in Outcomes :
              LET r == delete_flow(Index(new_flow, "id"), resp)
                  b == Append(banners, "STEP 9")
              IN  /\ sent' = Append(sent, r.req)
                  /\ call' = Called("delete_flow", <<Index(new_flow, "id")>>, resp, r)
                  /\ exc' = r.exc
                  /\ IF r.exc # ""
                     THEN pc' = "raised" /\ banners' = b
                     ELSE pc' = "done" /\ banners' = Summary(b)
    /\ UNCHANGED <<health, flows, protocol_flow, new_flow, updated, ai_status,
                   ai_response>>

Next ==
    \/ Step1 \/ Step2 \/ Step3 \/ Step4 \/ Step4b \/ Step5
    \/ Step6 \/ Step7 \/ Step8 \/ Step9

Spec == Init /\ [][Next]_vars

(***************************************************************************)
(* The request functions called on their own, with arguments and transport *)
(* outcomes drawn from bounded sets.                                       *)
(***************************************************************************)
MaxHistory == 2

FlowIds == {Num(7), Num(42)}

ExternalIds == {Str("111"), Str("e")}

Names == {Str("X"), Str("Demo")}

\* an Optional[str] argument: not supplied (None), empty, or a text
OptStrs == {None, Str(""), Str("e")}

Turns ==
    { Obj([role |-> Str("user"), content |-> Str("hi")]),
      Obj([role |-> Str("assistant"), content |-> Str("hello")]) }

\* history: list = None, or a list of up to MaxHistory prior turns
Histories ==
    {None} \cup
    UNION { {List(h) : h \in [1..n -> Turns]} : n \in 0..MaxHistory }

\* **updates
Updates == {Obj(<<>>), Obj([name |-> Str("X")]), Obj([flow_yaml |-> Str("e")])}

InitCalls ==
    /\ pc = "calls"
    /\ health = Unbound
    /\ flows = Unbound
    /\ protocol_flow = Unbound
    /\ new_flow = Unbound
    /\ updated = Unbound
    /\ ai_status = Unbound
    /\ ai_response = Unbound
    /\ sent = <<>>
    /\ banners = <<>>
    /\ exc = ""
    /\ call = NoCall

\* one call from outside main(): main()'s names stay untouched
NotMain ==
    /\ pc' = "returned"
    /\ UNCHANGED <<health, flows, protocol_flow, new_flow, updated,
                   ai_status, ai_response, sent, banners, exc>>

Call_check_health ==
    /\ pc = "calls"
    /\ \E resp \in Outcomes :
         call' = Called("check_health", <<>>, resp, check_health(resp))
    /\ NotMain

Call_list_flows ==
    /\ pc = "calls"
    /\ \E resp \in Outcomes :
         call' = Called("list_flows", <<>>, resp, list_flows(resp))
    /\ NotMain

Call_get_flow_by_id ==
    /\ pc = "calls"
    /\ \E flow_id \in FlowIds, resp \in Outcomes :
         call' = Called("get_flow_by_id", <<flow_id>>, resp,
                        get_flow_by_id(flow_id, resp))
    /\ NotMain

Call_get_flow_by_external_id ==
    /\ pc = "calls"
    /\ \E external_id \in ExternalIds, resp \in Outcomes :
         call' = Called("get_flow_by_external_id", <<external_id>>, resp,
                        get_flow_by_external_id(external_id, resp))
    /\ NotMain

Call_create_flow ==
    /\ pc = "calls"
    /\ \E name \in Names, external_id \in OptStrs, flow_yaml \in OptStrs,
          plan_yaml \in OptStrs, resp \in Outcomes :
         call' = Called("create_flow",
                        <<name, external_id, flow_yaml, plan_yaml>>, resp,
                        create_flow(name, external_id, flow_yaml, plan_yaml,
                                    resp))
    /\ NotMain

Call_update_flow ==
    /\ pc = "calls"
    /\ \E flow_id \in FlowIds, updates \in Updates, resp \in Outcomes :
         call' = Called("update_flow", <<flow_id, updates>>, resp,
                        update_flow(flow_id, updates, resp))
    /\ NotMain

Call_delete_flow ==
    /\ pc = "calls"
    /\ \E flow_id \in FlowIds, resp \in Outcomes :
         call' = Called("delete_flow", <<flow_id>>, resp,
                        delete_flow(flow_id, resp))
    /\ NotMain

Call_get_flow_yaml ==
    /\ pc = "calls"
    /\ \E flow_id \in FlowIds, resp \in Outcomes :
         call' = Called("get_flow_yaml", <<flow_id>>, resp,
                        get_flow_yaml(flow_id, resp))
    /\ NotMain

Call_get_planspace_yaml ==
    /\ pc = "calls"
    /\ \E flow_id \in FlowIds, resp \in Outcomes :
         call' = Called("get_planspace_yaml", <<flow_id>>, resp,
                        get_planspace_yaml(flow_id, resp))
    /\ NotMain

Call_get_flow_yaml_by_external_id ==
    /\ pc = "calls"
    /\ \E external_id \in ExternalIds, resp \in Outcomes :
         call' = Called("get_flow_yaml_by_external_id", <<external_id>>, resp,
                        get_flow_yaml_by_external_id(external_id, resp))
    /\ NotMain

Call_get_planspace_yaml_by_external_id ==
    /\ pc = "calls"
    /\ \E external_id \in ExternalIds, resp \in Outcomes :
         call' = Called("get_planspace_yaml_by_external_id", <<external_id>>,
                        resp,
                        get_planspace_yaml_by_external_id(external_id, resp))
    /\ NotMain

Call_check_ai_status ==
    /\ pc = "calls"
    /\ \E resp \in Outcomes :
         call' = Called("check_ai_status", <<>>, resp, check_ai_status(resp))
    /\ NotMain

Call_ai_chat ==
    /\ pc = "calls"
    /\ \E workspace \in Names, message \in Names, history \in Histories,
          current_flow_yaml \in OptStrs, resp \in Outcomes :
         call' = Called("ai_chat",
                        <<workspace, message, history, current_flow_yaml>>,
                        resp,
                        ai_chat(workspace, message, history,
                                current_flow_yaml, resp))
    /\ NotMain

NextCalls ==
    \/ Call_check_health \/ Call_list_flows \/ Call_get_flow_by_id
    \/ Call_get_flow_by_external_id \/ Call_create_flow \/ Call_update_flow
    \/ Call_delete_flow \/ Call_get_flow_yaml \/ Call_get_planspace_yaml
    \/ Call_get_flow_yaml_by_external_id
    \/ Call_get_planspace_yaml_by_external_id
    \/ Call_check_ai_status \/ Call_ai_chat

SpecCalls == InitCalls /\ [][NextCalls]_vars

(***************************************************************************)
(* Properties of the request functions, checked under SpecCalls            *)
(***************************************************************************)
JsonGatedOn200 ==
    {"get_flow_by_id", "get_flow_by_external_id", "update_flow", "ai_chat"}

TextGatedOn200 ==
    {"get_flow_yaml", "get_planspace_yaml", "get_flow_yaml_by_external_id",
     "get_planspace_yaml_by_external_id"}

\* the call returned the parsed JSON body on status `code` (when the body
\* parses) and None, without raising, on any other status
JsonGated(c, code) ==
    IF c.status = code
    THEN JsonOk(c.text) => c.exc = "" /\ c.ret = ParseJson(c.text)
    ELSE c.exc = "" /\ c.ret = None

\* C1: for every status s the transport returns, the four JSON functions
\* gated on 200 return the parsed body if s = 200 and None otherwise, the
\* four YAML functions return the response text if s = 200 and None
\* otherwise, create_flow returns the parsed body if s = 201 and None
\* otherwise (also for s = 200), and delete_flow returns True iff s = 204.
C1_StatusGating ==
    (call.fn # "" /\ ~call.err) =>
        /\ call.fn \in JsonGatedOn200 => JsonGated(call, 200)
        /\ call.fn = "create_flow" => JsonGated(call, 201)
        /\ call.fn \in TextGatedOn200 =>
              /\ call.exc = ""
              /\ call.ret = IF call.status = 200 THEN Str(call.text) ELSE None
        /\ call.fn = "delete_flow" =>
              /\ call.exc = ""
              /\ call.ret = Bool(call.status = 204)

\* create_flow got status 200 with a flow in the body and returned None
C1_Witness ==
    /\ call.fn = "create_flow"
    /\ call.status = 200
    /\ call.text = "{\"id\": 42}"
    /\ call.ret = None

OptionalKeys == <<"external_id", "flow_yaml", "plan_yaml">>

\* C2 as claimed: the body of POST /api/flows holds name with the given
\* value, and each of external_id, flow_yaml, plan_yaml if and only if that
\* argument was supplied (is not None), with exactly the supplied value.
C2_Original ==
    call.fn = "create_flow" =>
        LET body == call.req.json.o IN
        /\ "name" \in DOMAIN body /\ body["name"] = call.args[1]
        /\ \A i \in 1..3 :
              /\ OptionalKeys[i] \in DOMAIN body <=> call.args[i + 1] # None
              /\ OptionalKeys[i] \in DOMAIN body =>
                    body[OptionalKeys[i]] = call.args[i + 1]

\* C2 amended: the body of POST /api/flows holds name with the given value,
\* and each of external_id, flow_yaml, plan_yaml if and only if that
\* argument was supplied and is not the empty string, with exactly the
\* supplied value and never null; no other key is sent.
C2_OmitsUnsuppliedOrEmpty ==
    call.fn = "create_flow" =>
        LET body == call.req.json.o IN
        /\ DOMAIN body \subseteq {"name", "external_id", "flow_yaml", "plan_yaml"}
        /\ "name" \in DOMAIN body /\ body["name"] = call.args[1]
        /\ \A i \in 1..3 :
              /\ OptionalKeys[i] \in DOMAIN body <=>
                    (call.args[i + 1] # None /\ call.args[i + 1] # Str(""))
              /\ OptionalKeys[i] \in DOMAIN body =>
                    /\ body[OptionalKeys[i]] = call.args[i + 1]
                    /\ body[OptionalKeys[i]] # None

\* create_flow("X", external_id="", flow_yaml="e") sent {name, flow_yaml}
C2_Witness ==
    /\ call.fn = "create_flow"
    /\ call.args = <<Str("X"), Str(""), Str("e"), None>>
    /\ call.req.json = Obj([name |-> Str("X"), flow_yaml |-> Str("e")])

\* C3 as claimed: the body of POST /api/ai/chat holds history only when a
\* history was supplied and currentFlowYaml only when a current flow YAML
\* was supplied; with only workspace and message it holds exactly the keys
\* workspace and message.
C3_Original ==
    call.fn = "ai_chat" =>
        LET body == call.req.json.o IN
        /\ "history" \in DOMAIN body => call.args[3] # None
        /\ "currentFlowYaml" \in DOMAIN body => call.args[4] # None
        /\ (call.args[3] = None /\ call.args[4] = None) =>
              DOMAIN body = {"workspace", "message"}

\* C3 amended: the body of POST /api/ai/chat always holds workspace, message
\* and history; history is the supplied list, or the empty list when no
\* history (or an empty one) was supplied, never null; with only workspace
\* and message the body is exactly {workspace, message, history: []};
\* currentFlowYaml is present only when a current flow YAML was supplied,
\* with exactly the supplied value.
C3_HistoryAlwaysSent ==
    call.fn = "ai_chat" =>
        LET body == call.req.json.o IN
        /\ {"workspace", "message", "history"} \subseteq DOMAIN body
        /\ DOMAIN body \subseteq
              {"workspace", "message", "history", "currentFlowYaml"}
        /\ body["workspace"] = call.args[1]
        /\ body["message"] = call.args[2]
        /\ body["history"] =
              IF call.args[3] = None THEN List(<<>>) ELSE call.args[3]
        /\ "currentFlowYaml" \in DOMAIN body =>
              /\ call.args[4] # None
              /\ body["currentFlowYaml"] = call.args[4]
        /\ (call.args[3] = None /\ call.args[4] = None) =>
              call.req.json = Obj([workspace |-> call.args[1],
                                   message |-> call.args[2],
                                   history |-> List(<<>>)])

\* ai_chat("X", "Demo") sent a body with history = []
C3_Witness ==
    /\ call.fn = "ai_chat"
    /\ call.args = <<Str("X"), Str("Demo"), None, None>>
    /\ DOMAIN call.req.json.o = {"workspace", "message", "history"}
    /\ call.req.json.o["history"] = List(<<>>)

\* the status each gated function takes for success
SuccessStatus(fn) ==
    CASE fn = "create_flow" -> 201
      [] fn = "delete_flow" -> 204
      [] OTHER -> 200

Sentinels == {None, Bool(FALSE)}

\* the call returned the parsed body whatever the status, and raised when
\* the body is not JSON
Unconditional(c) ==
    IF JsonOk(c.text)
    THEN c.exc = "" /\ c.ret = ParseJson(c.text)
    ELSE c.exc = "JSONDecodeError"

\* C4 as claimed: on a non-success status every request function other than
\* check_health and check_ai_status returns the null/false sentinel.
C4_Original ==
    ( /\ call.fn \notin {"", "check_health", "check_ai_status"}
      /\ ~call.err
      /\ call.status # SuccessStatus(call.fn) ) =>
        call.exc = "" /\ call.ret \in Sentinels

\* C4 amended: on a non-success status every request function returns the
\* null/false sentinel, except exactly three "any status" functions,
\* check_health, list_flows and check_ai_status, which return the parsed
\* body whatever the status (and raise when it is not JSON).
C4_ThreeAnyStatus ==
    (call.fn # "" /\ ~call.err) =>
        IF call.fn \in {"check_health", "list_flows", "check_ai_status"}
        THEN Unconditional(call)
        ELSE call.status # SuccessStatus(call.fn) =>
                call.exc = "" /\ call.ret \in Sentinels

\* list_flows got status 500 and returned the parsed body
C4_Witness ==
    /\ call.fn = "list_flows"
    /\ call.status = 500
    /\ call.text = "{\"id\": 42}"
    /\ call.ret = Obj([id |-> Num(42)])

(***************************************************************************)
(* Properties of the driver main(), checked under Spec                     *)
(***************************************************************************)
Url(path) == BASE_URL \o path

\* the positions in sent of the requests with this method and URL
Sent(method, url) ==
    {i \in DOMAIN sent : sent[i].method = method /\ sent[i].url = url}

\* the positions in sent of the requests with this method
SentMethod(method) == {i \in DOMAIN sent : sent[i].method = method}

Healthy == Obj([status |-> Str("healthy")])

Flow42 == Obj([id |-> Num(42)])

\* every response so far is one the scenario's server gives: GET /health
\* answers {"status": "healthy"}, POST /api/flows answers 201 with id 42,
\* PUT /api/flows/42 answers 200, DELETE /api/flows/42 answers 204
ScenarioServer ==
    /\ ~call.err
    /\ call.fn = "check_health" => call.text = "{\"status\": \"healthy\"}"
    /\ health \in {Unbound, Healthy}
    /\ call.fn = "create_flow" =>
          call.status = 201 /\ call.text = "{\"id\": 42}"
    /\ new_flow \in {Unbound, Flow42}
    /\ call.fn = "update_flow" => call.status = 200
    /\ updated # None
    /\ call.fn = "delete_flow" => call.status = 204

\* C5 as claimed: against the scenario's server main() never raises, and
\* once it is done the last call was delete_flow and it returned True.
C5_Original ==
    ScenarioServer =>
        /\ pc # "raised"
        /\ pc = "done" => call.fn = "delete_flow" /\ call.ret = Bool(TRUE)

ChatRequests == Sent("POST", Url("/api/ai/chat"))

\* C6: when GET /api/ai/status reported configured false, POST /api/ai/chat
\* is never issued; a chat request is issued only after an AI-status
\* response that reports configured, and at most once.
C6_ChatOnlyWhenConfigured ==
    /\ Cardinality(ChatRequests) <= 1
    /\ \A i \in ChatRequests :
          /\ ai_status # Unbound
          /\ HasGet(ai_status)
          /\ Truthy(Get(ai_status, "configured"))
          /\ \E j \in Sent("GET", Url("/api/ai/status")) : j < i
    /\ (HasGet(ai_status) /\ Get(ai_status, "configured") = Bool(FALSE)) =>
          ChatRequests = {}

\* main() is done, AI status said configured false, no chat was sent
C6_Witness ==
    /\ pc = "done"
    /\ ai_status = Obj([configured |-> Bool(FALSE)])
    /\ ChatRequests = {}
    /\ \E i \in DOMAIN banners : banners[i] = "STEP 8 SKIPPED"

\* the requests of step 4
YamlRequests ==
    {i \in DOMAIN sent :
        \E n \in {"7", "42"} :
            sent[i].url \in {Url("/api/flows/" \o n \o "/flow.yaml"),
                             Url("/api/flows/" \o n \o "/planspace.yaml")}}

MutatingRequests == SentMethod("PUT") \cup SentMethod("DELETE")

\* C7 as claimed: once step 4 is over, its two requests were issued exactly
\* when the lookup returned a non-null result; once main() is done, PUT and
\* DELETE were issued exactly when create_flow returned a non-null result.
C7_Original ==
    /\ pc = "step5" =>
          (Cardinality(YamlRequests) = 2 <=> protocol_flow # None)
    /\ pc = "done" =>
          ((SentMethod("PUT") # {} /\ SentMethod("DELETE") # {})
              <=> new_flow # None)

\* C7 amended: the raw-YAML fetch is skipped exactly when the lookup
\* returned a falsy result (null or an empty JSON value such as {}), and
\* update and delete are skipped exactly when create_flow returned a falsy
\* result: a dependent step is entered only on a truthy result, and after a
\* falsy one no dependent request is issued.
C7_SkipOnFalsy ==
    /\ pc \in {"step4", "step4b"} => Truthy(protocol_flow)
    /\ pc = "step5" =>
          (Cardinality(YamlRequests) = 2 <=> Truthy(protocol_flow))
    /\ (protocol_flow # Unbound /\ ~Truthy(protocol_flow)) =>
          /\ YamlRequests = {}
          /\ \A i \in DOMAIN banners : banners[i] # "STEP 4"
    /\ pc \in {"step6", "step9"} => Truthy(new_flow)
    /\ pc = "done" =>
          ((SentMethod("PUT") # {} /\ SentMethod("DELETE") # {})
              <=> Truthy(new_flow))
    /\ (new_flow # Unbound /\ ~Truthy(new_flow)) =>
          /\ MutatingRequests = {}
          /\ \A i \in DOMAIN banners : banners[i] \notin {"STEP 6", "STEP 9"}

\* main() is done; lookup and create both answered with the non-null body
\* {} and every dependent step was skipped
C7_Witness ==
    /\ pc = "done"
    /\ protocol_flow = Obj(<<>>)
    /\ new_flow = Obj(<<>>)
    /\ YamlRequests = {}
    /\ MutatingRequests = {}

CreateRequests == Sent("POST", Url("/api/flows"))

\* C8 as claimed: in every finished run in which create_flow returned a
\* flow with id n, exactly one PUT /api/flows/n and exactly one
\* DELETE /api/flows/n were issued, the PUT first, and nothing else mutating.
C8_Original ==
    (pc \in {"done", "raised"} /\ new_flow # Unbound /\ CanIndex(new_flow, "id"))
    =>
        LET target == Url("/api/flows/" \o Format(Index(new_flow, "id"))) IN
        /\ Cardinality(Sent("PUT", target)) = 1
        /\ Cardinality(Sent("DELETE", target)) = 1
        /\ MutatingRequests = Sent("PUT", target) \cup Sent("DELETE", target)
        /\ \A i \in Sent("PUT", target), j \in Sent("DELETE", target) : i < j

\* C8 amended: in every run in which create_flow returned a flow with id n,
\* at most one PUT and at most one DELETE are issued, both on
\* /api/flows/n and after the create, a DELETE only after the PUT; a run
\* that reaches the summary issued exactly one of each, also when the
\* update returned None (a non-200 status); a run that an uncaught error
\* ends at the update, AI-status or chat step issues no DELETE.  Without a
\* created flow no PUT or DELETE is issued at all.
C8_UpdateThenDelete ==
    IF new_flow # Unbound /\ CanIndex(new_flow, "id")
    THEN LET target == Url("/api/flows/" \o Format(Index(new_flow, "id"))) IN
         /\ MutatingRequests = Sent("PUT", target) \cup Sent("DELETE", target)
         /\ Cardinality(Sent("PUT", target)) <= 1
         /\ Cardinality(Sent("DELETE", target)) <= 1
         /\ \A i \in MutatingRequests : \E c \in CreateRequests : c < i
         /\ \A j \in Sent("DELETE", target) :
               \E i \in Sent("PUT", target) : i < j
         /\ pc = "done" =>
               /\ Cardinality(Sent("PUT", target)) = 1
               /\ Cardinality(Sent("DELETE", target)) = 1
         /\ (pc = "raised" /\ call.fn # "delete_flow") =>
               Sent("DELETE", target) = {}
    ELSE MutatingRequests = {}

\* main() is done: the lookup returned flow 7, create returned flow 42, the
\* update got a non-200 status and returned None, and one PUT and one DELETE
\* went out, both on /api/flows/42
C8_Witness ==
    /\ pc = "done"
    /\ protocol_flow = Obj([id |-> Num(7)])
    /\ new_flow = Flow42
    /\ updated = None
    /\ call.fn = "delete_flow"
    /\ Cardinality(Sent("PUT", Url("/api/flows/42"))) = 1
    /\ Cardinality(Sent("DELETE", Url("/api/flows/42"))) = 1

AnyStatusFunctions == {"check_health", "list_flows", "check_ai_status"}

\* C9: a transport error raised by any request, at whichever step, ends the
\* run with that error, the failed request being the last one issued; so
\* does a body that is not valid JSON in the response of an "any status"
\* function.
C9_ErrorsPropagate ==
    /\ call.err =>
          /\ pc = "raised"
          /\ exc = "ConnectionError"
          /\ sent[Len(sent)] = call.req
    /\ (call.fn \in AnyStatusFunctions /\ ~call.err /\ ~JsonOk(call.text)) =>
          /\ pc = "raised"
          /\ exc = "JSONDecodeError"
          /\ sent[Len(sent)] = call.req

\* the transport raised at step 7, after the PUT: the run is over and no
\* DELETE was issued
C9_Witness ==
    /\ pc = "raised"
    /\ call.fn = "check_ai_status"
    /\ call.err
    /\ SentMethod("PUT") # {}
    /\ SentMethod("DELETE") = {}

\* C10 as claimed: when every request receives a response, whatever its
\* status, main() never raises.
C10_Original == ~call.err => pc # "raised"

====
